---- MODULE Spec2Model ----
(***************************************************************************)
(* A model of calliope's core Model lifecycle (calliope/core/model.py) and *)
(* of the node key expansion and node matrix construction                  *)
(* (calliope/nodes.py).                                                    *)
(*                                                                         *)
(* A dataset (xarray.Dataset) is a function from the names of its data     *)
(* variables to records [val, tag]: val abstracts the variable's content,  *)
(* tag is its is_result attribute.  The dataset attribute 'run.backend'    *)
(* is kept beside it.  The preprocessing that builds a dataset from a      *)
(* configuration and the backend runner are outside the module: the        *)
(* dataset built and the results returned are chosen freely.  Timings,     *)
(* debug data and the override columns of the node matrix are left out.    *)
(*                                                                         *)
(* Four specifications: Spec (the Model lifecycle), SpecExplode and        *)
(* SpecExpand (explode_node on free strings and on keys written from       *)
(* subkeys) and SpecMatrix (generate_node_matrix).                         *)
(***************************************************************************)
EXTENDS Integers, Sequences, FiniteSets, TLC

(***************************************************************************)
(* Bounds of the model.                                                    *)
(***************************************************************************)
NumVals == 2
MaxHandle == 2

(* The names a data variable may bear, and the contents it may hold.       *)
VarNames == {"a", "b"}
Vals == 1..NumVals
Handles == 1..MaxHandle

(***************************************************************************)
(* The is_result attribute: 0, 1, or anything else (absent included),      *)
(* which neither filter_by_attrs(is_result=0) nor (is_result=1) selects.   *)
(***************************************************************************)
Untagged == 2
Tags == {0, 1, Untagged}

NoHandle == 0

Entries == [val : Vals, tag : Tags]
Datasets == UNION {[S -> Entries] : S \in SUBSET VarNames}
EmptyDataset == [n \in {} |-> [val |-> 1, tag |-> 0]]

(* What a backend hands back, before run() tags it: names and contents.    *)
RawResults == UNION {[S -> Vals] : S \in SUBSET VarNames}

(* BACKEND_RUNNERS: the registry holds 'pyomo' only.                       *)
BACKEND_RUNNERS == {"pyomo"}
(* Values of the dataset attribute 'run.backend'; "absent": no such key.   *)
BackendAttrs == {"pyomo", "julia", "absent"}

ConfigKinds == {"str", "dict", "none", "other"}

VARIABLES
  modelRun,       \* "unset" | "set" | "None": self._model_run
  modelData,      \* self._model_data
  backendAttr,    \* self._model_data.attrs['run.backend']
  inputs,         \* self.inputs
  hasResults,     \* hasattr(self, 'results')
  results,        \* self.results (EmptyDataset while the attribute is unset)
  backendModel,   \* self._backend_model (NoHandle while unset)
  mergeAttrsLast, \* the installed xarray keeps the attrs of the last merged variable
  lastOp,         \* the last call made: "none" | "init" | "run"
  lastConfig,     \* its config argument's kind (init; "none" for run)
  lastDataGiven,  \* whether its model_data argument was not None (init)
  lastForce,      \* its force_rerun argument (run; FALSE for init)
  lastErr,        \* the exception it raised, "none" if it returned
  invoked,        \* whether it called the backend runner
  returned,       \* the results the backend returned to it, tagged by run()
                  \* (EmptyDataset when the backend returned nothing to it)
  pc,             \* nodes.py: "idle", then "explode" -> "exploded"
                  \* or "matrix" -> "generated": the call chosen, and made
  k,              \* explode_node's argument, a string (sequence of characters)
  shape,          \* the subkeys k was written from (<<>> for a free string)
  finalkeys,      \* explode_node's return value
  d,              \* generate_node_matrix's mapping: a sequence of [key, techs]
  techs,          \* generate_node_matrix's list of technologies
  rows,           \* the returned table: a sequence of [node, flags]
  nodeErr         \* the exception the nodes.py call raised, "none" if it returned

lifeVars == <<modelRun, modelData, backendAttr, inputs, hasResults, results,
              backendModel, mergeAttrsLast, lastOp, lastConfig, lastDataGiven,
              lastForce, lastErr, invoked, returned>>

nodeVars == <<pc, k, shape, finalkeys, d, techs, rows, nodeErr>>

vars == <<lifeVars, nodeVars>>

(***************************************************************************)
(* xarray operations used by the Model.                                    *)
(***************************************************************************)
FilterByAttrs(ds, t) ==
  [n \in {m \in DOMAIN ds : ds[m].tag = t} |-> ds[n]]

TagAll(ds, t) ==
  [n \in DOMAIN ds |-> [val |-> ds[n].val, tag |-> t]]

TagResults(raw) ==
  [n \in DOMAIN raw |-> [val |-> raw[n], tag |-> 1]]

(* Dataset.merge raises MergeError when a variable of both datasets holds  *)
(* conflicting values.                                                     *)
MergeConflict(ds, other) ==
  \E n \in DOMAIN ds \cap DOMAIN other : ds[n].val # other[n].val

(* Dataset.merge without conflict: the union of the variables.  A variable *)
(* of both datasets keeps its (equal) content.  Its attrs depend on the    *)
(* xarray installed: those of the first dataset (combine_attrs='override', *)
(* and compat='broadcast_equals'), or those of the last variable merged    *)
(* (out.attrs = var.attrs under compat='no_conflicts' in xarray 0.8 to     *)
(* 0.15).  mergeAttrsLast says which; both are explored.                   *)
Merge(ds, other, attrsLast) ==
  [n \in DOMAIN ds \cup DOMAIN other |->
     IF n \in DOMAIN ds /\ n \in DOMAIN other
       THEN [val |-> ds[n].val,
             tag |-> IF attrsLast THEN other[n].tag ELSE ds[n].tag]
       ELSE IF n \in DOMAIN ds THEN ds[n] ELSE other[n]]

(***************************************************************************)
(* Initial state: no Model has been constructed.                           *)
(***************************************************************************)
NodesIdle ==
  /\ pc = "idle"
  /\ k = <<>>
  /\ shape = <<>>
  /\ finalkeys = <<>>
  /\ d = <<>>
  /\ techs = <<>>
  /\ rows = <<>>
  /\ nodeErr = "none"

NoModel ==
  /\ modelRun = "unset"
  /\ modelData = EmptyDataset
  /\ backendAttr = "absent"
  /\ inputs = EmptyDataset
  /\ hasResults = FALSE
  /\ results = EmptyDataset
  /\ backendModel = NoHandle
  /\ mergeAttrsLast \in BOOLEAN
  /\ lastOp = "none"
  /\ lastConfig = "none"
  /\ lastDataGiven = FALSE
  /\ lastForce = FALSE
  /\ lastErr = "none"
  /\ invoked = FALSE
  /\ returned = EmptyDataset

Init == NoModel /\ NodesIdle

Constructed == modelRun # "unset"

(***************************************************************************)
(* Model.__init__(config, model_data)                                      *)
(***************************************************************************)
InitCall(config, given) ==
  /\ ~Constructed
  /\ lastOp' = "init"
  /\ lastConfig' = config
  /\ lastDataGiven' = given
  /\ invoked' = FALSE
  /\ lastForce' = FALSE
  /\ returned' = EmptyDataset
  /\ UNCHANGED <<mergeAttrsLast, backendModel>>
  /\ UNCHANGED nodeVars

(* _init_from_model_run: the dataset the preprocessing built, every        *)
(* variable tagged is_result = 0, and the inputs view filtered from it.    *)
InitFromModelRun(built, attr) ==
  /\ modelRun' = "set"
  /\ modelData' = TagAll(built, 0)
  /\ backendAttr' = attr
  /\ inputs' = FilterByAttrs(TagAll(built, 0), 0)
  /\ UNCHANGED <<hasResults, results>>

(* _init_from_model_data: the dataset as given; results only if some       *)
(* variable is tagged is_result = 1.                                       *)
InitFromModelData(model_data, attr) ==
  /\ modelRun' = "None"
  /\ modelData' = model_data
  /\ backendAttr' = attr
  /\ inputs' = FilterByAttrs(model_data, 0)
  /\ hasResults' = (DOMAIN FilterByAttrs(model_data, 1) # {})
  /\ results' = FilterByAttrs(model_data, 1)

(* isinstance(config, str) or isinstance(config, dict)                     *)
TakesBuildPath(config, given) == config \in {"str", "dict"}

(* The test of model_data alone.                                           *)
TakesDataPath_AnyConfig(config, given) == given

(* model_data is not None and config is None                               *)
TakesDataPath(config, given) == given /\ config = "none"

ConstructBuild ==
  \E config \in ConfigKinds, given \in BOOLEAN, built \in Datasets,
     attr \in BackendAttrs :
    /\ TakesBuildPath(config, given)
    /\ InitCall(config, given)
    /\ InitFromModelRun(built, attr)
    /\ lastErr' = "none"

ConstructFromData ==
  \E config \in ConfigKinds, given \in BOOLEAN, model_data \in Datasets,
     attr \in BackendAttrs :
    /\ ~TakesBuildPath(config, given)
    /\ TakesDataPath(config, given)
    /\ InitCall(config, given)
    /\ InitFromModelData(model_data, attr)
    /\ lastErr' = "none"

ConstructRejected ==
  \E config \in ConfigKinds, given \in BOOLEAN :
    /\ ~TakesBuildPath(config, given)
    /\ ~TakesDataPath(config, given)
    /\ InitCall(config, given)
    /\ lastErr' = "ValueError"
    /\ UNCHANGED <<modelRun, modelData, backendAttr, inputs, hasResults,
                   results>>

(***************************************************************************)
(* Model.run(force_rerun)                                                  *)
(***************************************************************************)
RunCall(force) ==
  /\ Constructed
  /\ lastOp' = "run"
  /\ lastForce' = force
  /\ lastConfig' = "none"
  /\ lastDataGiven' = FALSE
  /\ UNCHANGED <<mergeAttrsLast, modelRun, backendAttr, inputs>>
  /\ UNCHANGED nodeVars

(* The guard with the flag inverted.                                       *)
RunIsRefused_WrongFlag(force) == hasResults /\ force

(* hasattr(self, 'results') and not force_rerun                            *)
RunIsRefused(force) == hasResults /\ ~force

(* self._model_data.attrs['run.backend'] and BACKEND_RUNNERS[backend]      *)
BackendKnown == backendAttr \in BACKEND_RUNNERS

RunRefused ==
  \E force \in BOOLEAN :
    /\ RunCall(force)
    /\ RunIsRefused(force)
    /\ lastErr' = "ModelError"
    /\ invoked' = FALSE
    /\ returned' = EmptyDataset
    /\ UNCHANGED <<modelData, hasResults, results, backendModel>>

RunUnknownBackend ==
  \E force \in BOOLEAN :
    /\ RunCall(force)
    /\ ~RunIsRefused(force)
    /\ ~BackendKnown
    /\ lastErr' = "KeyError"
    /\ invoked' = FALSE
    /\ returned' = EmptyDataset
    /\ UNCHANGED <<modelData, hasResults, results, backendModel>>

RunBackendFails ==
  \E force \in BOOLEAN :
    /\ RunCall(force)
    /\ ~RunIsRefused(force)
    /\ BackendKnown
    /\ lastErr' = "BackendError"
    /\ invoked' = TRUE
    /\ returned' = EmptyDataset
    /\ UNCHANGED <<modelData, hasResults, results, backendModel>>

(* The handle the backend returned is stored by the tuple assignment of    *)
(* line 145, before the merge.                                             *)
StoreHandle(handle) == handle

RunMergeFails ==
  \E force \in BOOLEAN, raw \in RawResults, handle \in Handles :
    /\ RunCall(force)
    /\ ~RunIsRefused(force)
    /\ BackendKnown
    /\ invoked' = TRUE
    /\ returned' = TagResults(raw)
    /\ backendModel' = StoreHandle(handle)
    /\ MergeConflict(modelData, TagResults(raw))
    /\ lastErr' = "MergeError"
    /\ UNCHANGED <<modelData, hasResults, results>>

RunOk ==
  \E force \in BOOLEAN, raw \in RawResults, handle \in Handles :
    /\ RunCall(force)
    /\ ~RunIsRefused(force)
    /\ BackendKnown
    /\ invoked' = TRUE
    /\ returned' = TagResults(raw)
    /\ backendModel' = StoreHandle(handle)
    /\ ~MergeConflict(modelData, TagResults(raw))
    /\ modelData' = Merge(modelData, TagResults(raw), mergeAttrsLast)
    /\ results' = FilterByAttrs(Merge(modelData, TagResults(raw), mergeAttrsLast), 1)
    /\ hasResults' = TRUE
    /\ lastErr' = "none"

Next ==
  \/ ConstructBuild
  \/ ConstructFromData
  \/ ConstructRejected
  \/ RunRefused
  \/ RunUnknownBackend
  \/ RunBackendFails
  \/ RunMergeFails
  \/ RunOk

Spec == Init /\ [][Next]_vars

(***************************************************************************)
(* nodes.py.  A string is a sequence of one-character strings.             *)
(***************************************************************************)
MaxKeyLen == 5

(* The characters free strings are written with.                           *)
KeyChars == {"1", "9", ",", " ", "-"}

Digits == <<"0", "1", "2", "3", "4", "5", "6", "7", "8", "9">>

IsDigit(c) == \E i \in 1..10 : Digits[i] = c

DigitVal(c) == (CHOOSE i \in 1..10 : Digits[i] = c) - 1

IsSpace(c) == c = " "

(* str.strip()                                                             *)
RECURSIVE LStrip(_)
LStrip(s) ==
  IF s # <<>> /\ IsSpace(Head(s)) THEN LStrip(Tail(s)) ELSE s

RECURSIVE RStrip(_)
RStrip(s) ==
  IF s # <<>> /\ IsSpace(s[Len(s)]) THEN RStrip(SubSeq(s, 1, Len(s) - 1)) ELSE s

Strip(s) == RStrip(LStrip(s))

(* sep in s                                                                *)
Contains(s, sep) ==
  \E i \in 1..(Len(s) - Len(sep) + 1) : SubSeq(s, i, i + Len(sep) - 1) = sep

(* s.split(sep): the pieces between the occurrences of sep, found from the *)
(* left without overlap; cur is the piece being read.                      *)
RECURSIVE SplitFrom(_, _, _)
SplitFrom(s, sep, cur) ==
  IF Len(s) < Len(sep) THEN <<cur \o s>>
  ELSE IF SubSeq(s, 1, Len(sep)) = sep
    THEN <<cur>> \o SplitFrom(SubSeq(s, Len(sep) + 1, Len(s)), sep, <<>>)
    ELSE SplitFrom(Tail(s), sep, Append(cur, Head(s)))

Split(s, sep) == SplitFrom(s, sep, <<>>)

(* int(s): surrounding whitespace is dropped, one sign is allowed, and at  *)
(* least one digit must follow; anything else raises ValueError.           *)
Unsigned(s) ==
  LET t == Strip(s)
  IN  IF t # <<>> /\ Head(t) \in {"-", "+"} THEN Tail(t) ELSE t

IsIntLiteral(s) ==
  /\ Unsigned(s) # <<>>
  /\ \A i \in 1..Len(Unsigned(s)) : IsDigit(Unsigned(s)[i])

RECURSIVE DigitsValue(_)
DigitsValue(s) ==
  IF s = <<>> THEN 0
  ELSE 10 * DigitsValue(SubSeq(s, 1, Len(s) - 1)) + DigitVal(s[Len(s)])

IntOf(s) ==
  LET t == Strip(s)
  IN  IF Head(t) = "-" THEN 0 - DigitsValue(Unsigned(s)) ELSE DigitsValue(Unsigned(s))

(* str(i)                                                                  *)
RECURSIVE NatToStr(_)
NatToStr(n) ==
  IF n < 10 THEN <<Digits[n + 1]>>
  ELSE Append(NatToStr(n \div 10), Digits[(n % 10) + 1])

IntToStr(i) == IF i < 0 THEN <<"-">> \o NatToStr(0 - i) ELSE NatToStr(i)

(* range(begin, end): the end left out.                                    *)
RangeLast_Exclusive(begin, end) == end - 1

(* range(begin, end + 1): the last integer the range yields.               *)
RangeLast(begin, end) == end

(* [str(i).strip() for i in range(int(begin), int(end)+1)]                 *)
RangeKeys(begin, last) ==
  IF begin > last THEN <<>>
  ELSE [i \in 1..(last - begin + 1) |-> Strip(IntToStr(begin + i - 1))]

(* One pass of the loop over subkeys: the keys the subkey sk adds, or the  *)
(* ValueError of unpacking sk.split('--') or of int().                     *)
ExplodeRange(parts) ==
  IF Len(parts) # 2 THEN [err |-> "ValueError", keys |-> <<>>]
  ELSE IF ~IsIntLiteral(parts[1]) \/ ~IsIntLiteral(parts[2])
    THEN [err |-> "ValueError", keys |-> <<>>]
    ELSE [err |-> "none",
          keys |-> RangeKeys(IntOf(parts[1]),
                             RangeLast(IntOf(parts[1]), IntOf(parts[2])))]

ExplodeSubkey(sk) ==
  IF Contains(sk, <<"-", "-">>)
    THEN ExplodeRange(Split(sk, <<"-", "-">>))
    ELSE [err |-> "none", keys |-> <<Strip(sk)>>]

(* finalkeys += ...: the first subkey that raises ends the loop.           *)
AddKeys(first, rest) ==
  IF first.err # "none" THEN first
  ELSE IF rest.err # "none" THEN rest
  ELSE [err |-> "none", keys |-> first.keys \o rest.keys]

RECURSIVE ExplodeSubkeys(_)
ExplodeSubkeys(subkeys) ==
  IF subkeys = <<>> THEN [err |-> "none", keys |-> <<>>]
  ELSE AddKeys(ExplodeSubkey(Head(subkeys)), ExplodeSubkeys(Tail(subkeys)))

(* finalkeys == [] or finalkeys == ['']                                    *)
IsEmptyKey(keys) == keys = <<>> \/ keys = << <<>> >>

(* if finalkeys == [] or finalkeys == ['']: raise KeyError('Empty key')    *)
CheckEmptyKey(all) ==
  IF all.err # "none" THEN all
  ELSE IF IsEmptyKey(all.keys) THEN [err |-> "KeyError", keys |-> <<>>]
  ELSE all

(* explode_node(k): [err, keys]                                            *)
explode_node(key) == CheckEmptyKey(ExplodeSubkeys(Split(key, <<",">>)))

RECURSIVE StringsUpTo(_)
StringsUpTo(n) ==
  IF n = 0 THEN {<<>>}
  ELSE LET shorter == StringsUpTo(n - 1)
       IN  shorter \cup {Append(s, c) : s \in {t \in shorter : Len(t) = n - 1},
                                         c \in KeyChars}

FreeKeys == StringsUpTo(MaxKeyLen)

(* A caller picks a string and calls explode_node on it.                   *)
ChooseKey ==
  /\ pc = "idle"
  /\ \E key \in FreeKeys : k' = key
  /\ pc' = "explode"
  /\ UNCHANGED <<shape, finalkeys, d, techs, rows, nodeErr>>
  /\ UNCHANGED lifeVars

Explode ==
  /\ pc = "explode"
  /\ \E out \in {explode_node(k)} :
       /\ finalkeys' = out.keys
       /\ nodeErr' = out.err
  /\ pc' = "exploded"
  /\ UNCHANGED <<k, shape, d, techs, rows>>
  /\ UNCHANGED lifeVars

NextExplode ==
  \/ ChooseKey
  \/ Explode

InitNodes == Init /\ ~mergeAttrsLast

SpecExplode == InitNodes /\ [][NextExplode]_vars

(***************************************************************************)
(* Keys written from their subkeys.  A subkey is an inclusive range a--b   *)
(* with a <= b, or a token (possibly blank) between optional blanks.  The  *)
(* numerals are written from a table.                                      *)
(***************************************************************************)
MaxItems == 2
MaxInt == 10
MaxSpan == 2

Numerals ==
  << <<"0">>, <<"1">>, <<"2">>, <<"3">>, <<"4">>, <<"5">>, <<"6">>, <<"7">>,
     <<"8">>, <<"9">>, <<"1", "0">>, <<"1", "1">>, <<"1", "2">>, <<"1", "3">>,
     <<"1", "4">>, <<"1", "5">>, <<"1", "6">>, <<"1", "7">>, <<"1", "8">>,
     <<"1", "9">>, <<"2", "0">> >>

Numeral(i) == Numerals[i + 1]

Pad(on) == IF on THEN <<" ">> ELSE <<>>

RangeItems ==
  {[kind |-> "range", a |-> a, b |-> a + span, text |-> <<>>, pad |-> FALSE] :
     a \in 0..MaxInt, span \in 0..MaxSpan}

TokenItems ==
  {[kind |-> "token", a |-> 0, b |-> 0, text |-> t, pad |-> p] :
     t \in {<<"a">>, <<>>}, p \in BOOLEAN}

Items == RangeItems \cup TokenItems

Shapes == UNION {[1..n -> Items] : n \in 1..MaxItems}

WriteItem(it) ==
  IF it.kind = "range" THEN Numeral(it.a) \o <<"-", "-">> \o Numeral(it.b)
  ELSE Pad(it.pad) \o it.text \o Pad(it.pad)

RECURSIVE WriteKey(_)
WriteKey(sh) ==
  IF Len(sh) = 1 THEN WriteItem(sh[1])
  ELSE WriteItem(sh[1]) \o <<",">> \o WriteKey(Tail(sh))

(* What the subkeys denote: the integers a..b in ascending order, written  *)
(* as numerals, and the bare token.                                        *)
Denoted(it) ==
  IF it.kind = "range" THEN [i \in 1..(it.b - it.a + 1) |-> Numeral(it.a + i - 1)]
  ELSE <<it.text>>

RECURSIVE DenotedBy(_)
DenotedBy(sh) ==
  IF sh = <<>> THEN <<>> ELSE Denoted(Head(sh)) \o DenotedBy(Tail(sh))

WriteShapedKey ==
  /\ pc = "idle"
  /\ \E sh \in Shapes :
       /\ shape' = sh
       /\ k' = WriteKey(sh)
  /\ pc' = "explode"
  /\ UNCHANGED <<finalkeys, d, techs, rows, nodeErr>>
  /\ UNCHANGED lifeVars

NextExpand ==
  \/ WriteShapedKey
  \/ Explode

SpecExpand == InitNodes /\ [][NextExpand]_vars

(***************************************************************************)
(* generate_node_matrix(d, techs).  d is given in its iteration order, as  *)
(* a sequence of [key, items] with distinct keys; items holds the node     *)
(* settings level, within and techs (the permitted technologies).          *)
(***************************************************************************)
MaxEntries == 2
MaxNode == 2

TechNames == {"pv", "wind"}

NodeItems ==
  {it \in {[kind |-> "range", a |-> a, b |-> b, text |-> <<>>, pad |-> FALSE] :
             a \in 1..MaxNode, b \in 1..MaxNode} : it.a <= it.b}
  \cup {[kind |-> "token", a |-> 0, b |-> 0, text |-> Numeral(n), pad |-> FALSE] :
          n \in 1..MaxNode}

NodeKeys == {WriteKey(sh) : sh \in UNION {[1..n -> NodeItems] : n \in 1..2}}

Settings == [level : {0}, within : {<<"N", "o", "n", "e">>}, techs : SUBSET TechNames]

NodeConfigs ==
  {cfg \in UNION {[1..n -> [key : NodeKeys, items : Settings]] : n \in 0..MaxEntries} :
     \A i, j \in 1..Len(cfg) : i # j => cfg[i].key # cfg[j].key}

TechLists == UNION {[1..n -> TechNames] : n \in 0..Cardinality(TechNames)}

ListItems(seq) == {seq[i] : i \in 1..Len(seq)}

(* The permitted technologies: d[y] = 1 if y in items.techs else 0, for    *)
(* each y of techs.                                                        *)
TechFlag(y, items) == IF y \in items.techs THEN 1 ELSE 0

(* _generate_node(node, items, techs): the row of one node.                *)
_generate_node(node, items, techlist) ==
  [node |-> node, level |-> items.level, within |-> items.within,
   flags |-> [y \in ListItems(techlist) |-> TechFlag(y, items)]]

(* '--' in k or ',' in k                                                   *)
IsCompact(key) == Contains(key, <<"-", "-">>) \/ Contains(key, <<",">>)

(* The rows one entry of d appends, or the error explode_node raised.      *)
NodeRows(allnodes, items, techlist) ==
  [err |-> allnodes.err,
   rows |-> [i \in 1..Len(allnodes.keys) |->
               _generate_node(allnodes.keys[i], items, techlist)]]

EntryRows(entry, techlist) ==
  IF IsCompact(entry.key)
    THEN NodeRows(explode_node(entry.key), entry.items, techlist)
    ELSE [err |-> "none", rows |-> <<_generate_node(entry.key, entry.items, techlist)>>]

(* rows.append(...): the first entry whose key raises ends the loop.       *)
AppendRows(first, rest) ==
  IF first.err # "none" THEN [err |-> first.err, rows |-> <<>>]
  ELSE IF rest.err # "none" THEN rest
  ELSE [err |-> "none", rows |-> first.rows \o rest.rows]

RECURSIVE AllRows(_, _)
AllRows(cfg, techlist) ==
  IF cfg = <<>> THEN [err |-> "none", rows |-> <<>>]
  ELSE AppendRows(EntryRows(Head(cfg), techlist), AllRows(Tail(cfg), techlist))

(* DataFrame.from_records(rows), indexed by the _node column: one record   *)
(* per row, whatever the index holds.  Without rows there is no _node      *)
(* column and df._node raises AttributeError.                              *)
FromRecords(all) ==
  IF all.err # "none" THEN all
  ELSE IF all.rows = <<>> THEN [err |-> "AttributeError", rows |-> <<>>]
  ELSE all

generate_node_matrix(cfg, techlist) == FromRecords(AllRows(cfg, techlist))

ChooseMatrixArgs ==
  /\ pc = "idle"
  /\ \E cfg \in NodeConfigs, techlist \in TechLists :
       /\ d' = cfg
       /\ techs' = techlist
  /\ pc' = "matrix"
  /\ UNCHANGED <<k, shape, finalkeys, rows, nodeErr>>
  /\ UNCHANGED lifeVars

GenerateMatrix ==
  /\ pc = "matrix"
  /\ \E out \in {generate_node_matrix(d, techs)} :
       /\ rows' = out.rows
       /\ nodeErr' = out.err
  /\ pc' = "generated"
  /\ UNCHANGED <<k, shape, finalkeys, d, techs>>
  /\ UNCHANGED lifeVars

NextMatrix ==
  \/ ChooseMatrixArgs
  \/ GenerateMatrix

SpecMatrix == InitNodes /\ [][NextMatrix]_vars

(***************************************************************************)
(* Properties of Model.run and Model.__init__, checked under Spec.         *)
(***************************************************************************)

(* C1: a run(force_rerun=False) on a Model that has a results view raises  *)
(* ModelError without calling the backend, and leaves the held dataset,    *)
(* the inputs view and the results view as they were.                      *)
C1_RerunRefused ==
  [][(hasResults /\ lastOp' = "run" /\ ~lastForce')
       => /\ lastErr' = "ModelError"
          /\ ~invoked'
          /\ modelData' = modelData
          /\ inputs' = inputs
          /\ hasResults'
          /\ results' = results]_vars

(* A Model built from a configuration ran, and its next run was refused.   *)
C1_Witness ==
  /\ modelRun = "set"
  /\ hasResults
  /\ DOMAIN results # {}
  /\ lastOp = "run"
  /\ ~lastForce
  /\ lastErr = "ModelError"

(* C2: on a Model with results, a run(force_rerun=True) to which the       *)
(* backend returns results succeeds, and the results view then holds       *)
(* exactly the variables the backend returned, each tagged is_result=1.    *)
C2_ForcedRerunReplacesResults ==
  [][(hasResults /\ lastOp' = "run" /\ lastForce' /\ invoked'
        /\ lastErr' # "BackendError")
       => /\ lastErr' = "none"
          /\ DOMAIN results' = DOMAIN returned'
          /\ \A n \in DOMAIN results' : results'[n].tag = 1]_vars

(* C3: once a Model is constructed, the inputs view is exactly the         *)
(* variables of the held dataset tagged is_result=0, the results view      *)
(* (when it exists) exactly those tagged is_result=1, and no variable is   *)
(* in both views.                                                          *)
C3_ViewsPartitionDataset ==
  Constructed
    => /\ inputs = FilterByAttrs(modelData, 0)
       /\ hasResults => results = FilterByAttrs(modelData, 1)
       /\ DOMAIN inputs \cap DOMAIN results = {}

(* C4: when the backend returns a variable that bears the name of a        *)
(* non-result variable of the held dataset, the merge raises an error.     *)
C4_CollisionWithInputFails ==
  [][(lastOp' = "run"
        /\ \E n \in DOMAIN returned' \cap DOMAIN modelData : modelData[n].tag # 1)
       => lastErr' = "MergeError"]_vars

(* C5: a run() that raises leaves the held dataset, the inputs view, the   *)
(* results view (or its absence) and the stored backend-model handle as    *)
(* they were before the call.                                              *)
C5_FailedRunLeavesStateUntouched ==
  [][(lastOp' = "run" /\ lastErr' # "none")
       => /\ modelData' = modelData
          /\ inputs' = inputs
          /\ hasResults' = hasResults
          /\ results' = results
          /\ backendModel' = backendModel]_vars

(* C6, as stated: construction succeeds exactly when a configuration (str  *)
(* or dict) is given without a dataset, or a dataset is given with         *)
(* config=None; every other combination raises.                            *)
C6_ExactlyOneEntryPath ==
  lastOp = "init"
    => (lastErr = "none"
          <=> \/ lastConfig \in {"str", "dict"} /\ ~lastDataGiven
              \/ lastConfig = "none" /\ lastDataGiven)

(* C6, amended: a str or dict config takes the build path whether or not   *)
(* a dataset is given too; config=None with a dataset takes the            *)
(* reconstruction path; every other combination raises ValueError and      *)
(* builds no Model state.                                                  *)
C6_ConstructionPaths ==
  lastOp = "init"
    => /\ lastConfig \in {"str", "dict"}
            => lastErr = "none" /\ modelRun = "set"
       /\ (lastConfig = "none" /\ lastDataGiven)
            => lastErr = "none" /\ modelRun = "None"
       /\ (lastConfig = "other" \/ (lastConfig = "none" /\ ~lastDataGiven))
            => /\ lastErr = "ValueError"
               /\ modelRun = "unset"
               /\ modelData = EmptyDataset
               /\ inputs = EmptyDataset
               /\ ~hasResults

(* A configuration and a dataset were both given, and the Model was built. *)
C6_Witness ==
  /\ lastOp = "init"
  /\ lastConfig = "dict"
  /\ lastDataGiven
  /\ lastErr = "none"
  /\ modelRun = "set"
  /\ DOMAIN inputs # {}

(***************************************************************************)
(* Properties of generate_node_matrix, checked under SpecMatrix.           *)
(***************************************************************************)

(* C7: when a node permits a technology that is not in the global list,    *)
(* generate_node_matrix raises an error.                                   *)
C7_UnknownTechRejected ==
  (pc = "generated"
     /\ \E i \in 1..Len(d) : ~(d[i].items.techs \subseteq ListItems(techs)))
    => nodeErr # "none"

(* C8: a returned table has one record per node identifier (no identifier  *)
(* indexes two records), and every record holds one entry, 0 or 1, for     *)
(* each technology of the global list.                                     *)
C8_UniqueIndexBinaryFlags ==
  (pc = "generated" /\ nodeErr = "none")
    => /\ \A i, j \in 1..Len(rows) : i # j => rows[i].node # rows[j].node
       /\ \A i \in 1..Len(rows) :
            /\ DOMAIN rows[i].flags = ListItems(techs)
            /\ \A y \in DOMAIN rows[i].flags : rows[i].flags[y] \in {0, 1}

(***************************************************************************)
(* Properties of explode_node.                                             *)
(***************************************************************************)
IsBlank(key) == \A i \in 1..Len(key) : key[i] = " "

IsAllCommas(key) == \A i \in 1..Len(key) : key[i] = ","

(* C9 (under SpecExplode): explode_node raises on the empty string, on a   *)
(* blank string and on a string made of commas only.                       *)
C9_EmptyKeyRejected ==
  (pc = "exploded" /\ (IsBlank(k) \/ IsAllCommas(k)))
    => nodeErr # "none"

(* C10 (under SpecExpand): for a key written as subkeys joined by commas,  *)
(* each a range a--b with a <= b or a token between optional blanks,       *)
(* explode_node returns the concatenation, in subkey order, of the         *)
(* numerals of a..b in ascending order and of the bare tokens.  The key    *)
(* that denotes the single empty identifier is C9's case and left out.     *)
C10_ExpansionInOrder ==
  (pc = "exploded" /\ DenotedBy(shape) # << <<>> >>)
    => /\ nodeErr = "none"
       /\ finalkeys = DenotedBy(shape)

(* '9--11, a ' was expanded into 9, 10, 11, a.                             *)
C10_Witness ==
  /\ pc = "exploded"
  /\ Len(shape) = 2
  /\ shape[1] = [kind |-> "range", a |-> 9, b |-> 11, text |-> <<>>, pad |-> FALSE]
  /\ shape[2] = [kind |-> "token", a |-> 0, b |-> 0, text |-> <<"a">>, pad |-> TRUE]
  /\ k = <<"9", "-", "-", "1", "1", ",", " ", "a", " ">>
  /\ finalkeys = << <<"9">>, <<"1", "0">>, <<"1", "1">>, <<"a">> >>

====
